---- MODULE Spec2Model ----
(***************************************************************************)
(* A model of the engine factory of pi_vm (src/src/pi_vm_impl.rs) and of   *)
(* its channels (src/src/channel_map.rs): the pool of engines (VMFactory), *)
(* the dispatch of calls onto the scheduler, the source-queue table, the   *)
(* code list and its loaders, the blocking coordinator, push_callback and  *)
(* the channel registry.                                                   *)
(*                                                                         *)
(* Spec          the factory used by concurrent threads that produce and   *)
(*               call without a source: produce, call, new_vm, the free    *)
(*               queue and the scheduler running the call tasks            *)
(* SpecSrc       the factory used by concurrent threads that call with a   *)
(*               source id: call, new_vm, new_queue, the per-source queues *)
(* SpecQueue     SpecSrc with a host that calls remove_queue               *)
(* SpecAppend    the factory's handles (clones), loaders and append, with  *)
(*               threads that produce                                      *)
(* SpecLoader    the loaders of a factory and their load_next              *)
(* SpecBlock     one engine running call tasks, with block_set_global_var, *)
(*               block_reply and block_throw posted to it                  *)
(* SpecBlockFair SpecBlock under a fair scheduler                          *)
(* SpecPush      one engine running call tasks, with push_callback and     *)
(*               VMChannel::response                                       *)
(* SpecChan      the channel registry: gray, register, unregister and the  *)
(*               requests of the engines                                   *)
(***************************************************************************)
EXTENDS Integers, Sequences, FiniteSets, Bags, TLC

\* ------------------------------------------------------------------ bounds
\* threads using the factory (through clones of it), one operation each
NThreads == 2
\* remove_queue invocations
MaxRemoves == 1
\* the factory's capacity is any of 0..MaxCapacity
MaxCapacity == 2
\* the code list of the factory holds at most MaxCodes blobs
MaxCodes == 3
\* source ids 1..NSources
NSources == 1

\* VMFactory values alive at once (the factory and its clones)
MaxHandles == 2
\* VMFactoryLoader values alive at once
MaxLoaders == 2
\* block_set_global_var / block_reply / block_throw invocations by the host
MaxBlockOps == 2
\* suspensions of the engine (entries into MultiTask)
MaxSuspensions == 2
\* callbacks waiting in the engine's callback queue
MaxCallbacks == 2

\* names a channel handler can be registered under
NNames == 2
\* handlers the host registers
NHandlers == 2
\* largest gray value set_channels_gray is given
MaxGray == 1
\* register / unregister operations in a run
MaxRegOps == 4
\* async_request invocations in a run
MaxRequests == 2
\* VMChannel::response invocations in a run
MaxResponses == 2

Sources == 1..NSources
Names == 1..NNames
Handlers == 1..NHandlers
\* src: Option<usize>; NoSrc stands for None
NoSrc == 0
\* Option<Arc<JS>>: NoVm stands for None
NoVm == -1
\* Option<isize>: NoQueue stands for no queue
NoQueue == 0
\* no handler (Option::None of set / remove / map.get)
NoHandler == 0
\* a channel without the attribute _$gray
NoGray == -1
\* no continuation of block_set_global_var has been invoked
NoNext == [arg |-> "none", built |-> FALSE, written |-> FALSE]

VARIABLES
    capacity,   \* VMFactory.capacity
    size,       \* VMFactory.size (AtomicUsize shared by all clones)
    alloc_id,   \* VMFactory.alloc_id
    codes,      \* length of VMFactory.codes
    freeq,      \* the bounded channel producer/consumer: free engines, FIFO
    th,         \* the operations in progress, one frame per thread (a bag)
    started,    \* number of operations started so far
    returned,   \* the operation that returned last, and what it returned
    eloc,       \* per engine (alloc id + 1): where the engine is
    queues,     \* VM_FACTORY_QUEUES: source id -> scheduler queue id
    squeue,     \* scheduler: queue id -> pending sync tasks, FIFO
    atasks,     \* scheduler: pending async tasks
    posted,     \* history: per source, the task ids in cast order
    executed,   \* history: per source, the task ids in the order workers took them
    ntask,      \* history: number of tasks cast so far
    removed,    \* scheduler: the queue ids it has deleted
    rmlog,      \* history: remove_queue invocations, the last one's source and result
    handles,    \* VMFactory values alive that share the codes Arc
    loaders,    \* VMFactoryLoader values alive that share the codes Arc
    lds,        \* the VMFactoryLoader values alive: offset, top, history (a bag)
    status,     \* the engine's status (JSStatus)
    running,    \* the interpreter is executing on a worker
    epoch,      \* history: suspensions of the engine so far
    bqueue,     \* the engine's bound queue: coordinator tasks, FIFO
    bqlock,     \* the engine's bound queue is locked
    btasks,     \* coordinator tasks a worker is executing (a bag)
    nblock,     \* number of coordinator operations the host has invoked
    ndone,      \* history: coordinator operations that performed their action
    sets,       \* history: block_set_global_var operations and their continuations
    cbq,        \* length of the engine's callback queue
    wakes,      \* history: per suspension, the calls of dukc_wakeup
    woken,      \* history: the operations that called dukc_wakeup
    ptasks,     \* push_callback invocations in progress (a bag of frames)
    npush,      \* number of push_callback invocations so far
    plog,       \* history: the push_callback invocations that returned
    phist,      \* history: callbacks run, dispatcher calls, entries into WaitCallBack
    nresp,      \* number of VMChannel::response invocations so far, by channel source
    resplog,    \* history: the response invocations that returned
    gray,       \* VM_CHANNELS: VMChannelMap.gray
    map,        \* VM_CHANNELS: VMChannelMap.map, name -> handler
    readers,    \* VM_CHANNELS: read guards of the RwLock that are held
    regs,       \* history: register / unregister calls by what they returned
    rq,         \* async_request invocations in progress (a bag of frames)
    nreq,       \* number of async_request invocations so far
    reqlog      \* history: the async_request invocations that returned

factoryVars == <<capacity, size, alloc_id, codes, freeq>>
schedVars == <<queues, squeue, atasks, posted, executed, ntask>>
removeVars == <<removed, rmlog>>
poolVars == <<factoryVars, th, started, returned, eloc, schedVars, removeVars>>

appendVars == <<handles, loaders, lds>>
pushVars == <<ptasks, npush, plog, phist, nresp, resplog>>
blockVars == <<status, running, epoch, bqueue, bqlock, btasks, nblock, ndone, sets, cbq, wakes,
               woken,
               pushVars>>
\* what the factory's operations leave alone
chanVars == <<gray, map, readers, regs, rq, nreq, reqlog>>
otherVars == <<appendVars, blockVars, chanVars>>

vars == <<poolVars, appendVars, blockVars, chanVars>>

\* ----------------------------------------------------------------- helpers
\* bounded(size) of VMFactory::new: a capacity of 0 still gets a queue of 1
QueueBound == IF capacity = 0 THEN 1 ELSE capacity

NoResult == [kind |-> "none", val |-> 0]
Ok(v) == [kind |-> "Ok", val |-> v]
Err(k) == [kind |-> k, val |-> 0]

IsPrefix(s, t) == Len(s) <= Len(t) /\ \A k \in 1..Len(s) : s[k] = t[k]

\* the frames of the operations in progress
Frames == BagToSet(th)
\* frame r makes a step and becomes r2
Step(r, r2) == (th (-) SetToBag({r})) (+) SetToBag({r2})
\* the operation of frame r returns
Leave(r) == th (-) SetToBag({r})

\* the frame of an operation at its entry
Frame == [pc |-> "entry", op |-> "none", count |-> 0, src |-> NoSrc, i |-> 0,
          curr_size |-> 0, vm |-> NoVm, queue |-> NoQueue,
          entry |-> 0, reserved |-> FALSE]

\* what is known of an operation once it has returned
Returned(r, res) == [op |-> r.op, count |-> r.count, result |-> res]

\* an increment that does not compare (what compare_and_swap guards against)
CompareAndSwapFetchAdd(cur, expected, new) == cur + 1
\* AtomicUsize::compare_and_swap(current, new): the value stored afterwards
CompareAndSwap(cur, expected, new) == IF cur = expected THEN new ELSE cur

\* The match on the value compare_and_swap returned (new_vm). The first arm's
\* pattern `curr_size` is an identifier pattern: it binds any value, so the
\* arm is taken whatever the prior value was and the later arms never are.
CasArm(prior, expected, cap) == "break"

Init ==
    /\ capacity \in 0..MaxCapacity
    /\ size = 0
    /\ alloc_id = 0
    /\ codes = 0
    /\ freeq = <<>>
    /\ th = EmptyBag
    /\ started = 0
    /\ returned = Returned(Frame, NoResult)
    /\ eloc = <<>>
    /\ queues = <<>>
    /\ squeue = <<>>
    /\ removed = {}
    /\ rmlog = [n |-> 0, src |-> NoSrc, ret |-> NoQueue]
    /\ atasks = {}
    /\ posted = [s \in Sources |-> <<>>]
    /\ executed = [s \in Sources |-> <<>>]
    /\ ntask = 0
    /\ handles = 1
    /\ loaders = 0
    /\ lds = EmptyBag
    /\ status = "NoTask"
    /\ running = FALSE
    /\ epoch = 0
    /\ bqueue = <<>>
    /\ bqlock = FALSE
    /\ btasks = EmptyBag
    /\ nblock = 0
    /\ ndone = 0
    /\ sets = [invoked |-> 0, next |-> 0, written |-> 0, last |-> NoNext]
    /\ cbq = 0
    /\ wakes = [k \in 0..MaxSuspensions |-> 0]
    /\ woken = {}
    /\ ptasks = EmptyBag
    /\ npush = 0
    /\ plog = {}
    /\ phist = [run |-> 0, disp |-> 0, wcb |-> 0]
    /\ nresp = [Any |-> 0, VM |-> 0]
    /\ resplog = {}
    /\ gray = 0
    /\ map = <<>>
    /\ readers = 0
    /\ regs = [new |-> 0, replaced |-> 0, removed |-> 0]
    /\ rq = EmptyBag
    /\ nreq = 0
    /\ reqlog = {}

\* ------------------------------------------------------- VMFactory::produce
\* a thread enters produce(n)
StartProduce(n) ==
    /\ started < NThreads
    /\ started' = started + 1
    /\ th' = th (+) SetToBag({[Frame EXCEPT !.pc = "prod_check", !.op = "produce",
                                            !.count = n, !.entry = size]})
    /\ UNCHANGED <<factoryVars, returned, eloc, schedVars>>
    /\ UNCHANGED <<removeVars, otherVars>>

\* a capacity test that lets one engine too many through
ProduceFullOffByOne(sz, n, cap) == sz + n > cap + 1
\* the capacity test of produce: size() + count > capacity()
ProduceFull(sz, n, cap) == sz + n > cap

\* the two early returns of produce; otherwise the loop `for _ in 0..count`
\* is entered and its first turn calls new_vm
ProduceCheck(r) ==
    /\ r.pc = "prod_check"
    /\ IF r.count = 0
       THEN /\ th' = Leave(r)
            /\ returned' = Returned(r, Ok(r.count))
       ELSE IF ProduceFull(size, r.count, capacity)
            THEN /\ th' = Leave(r)
                 /\ returned' = Returned(r, Err("ErrFull"))
            ELSE /\ th' = Step(r, [r EXCEPT !.pc = "nv_load", !.i = 0, !.reserved = FALSE])
                 /\ UNCHANGED returned
    /\ UNCHANGED <<factoryVars, started, eloc, schedVars>>
    /\ UNCHANGED <<removeVars, otherVars>>

\* the match on new_vm's result inside the loop, with producer.try_send; after
\* a send the loop goes to its next turn or ends
ProduceGot(r) ==
    /\ r.pc = "prod_got"
    /\ IF r.vm = NoVm
       THEN /\ th' = Leave(r)
            /\ returned' = Returned(r, Err("ErrNew"))
            /\ UNCHANGED <<freeq, eloc>>
       ELSE IF Len(freeq) < QueueBound
            THEN /\ freeq' = Append(freeq, r.vm)
                 /\ eloc' = [eloc EXCEPT ![r.vm + 1] = "free"]
                 /\ th' = Step(r, [r EXCEPT !.pc = IF r.i + 1 < r.count
                                                   THEN "nv_load" ELSE "prod_ret",
                                            !.i = @ + 1, !.vm = NoVm, !.reserved = FALSE])
                 /\ UNCHANGED returned
            ELSE /\ eloc' = [eloc EXCEPT ![r.vm + 1] = "dropped"]
                 /\ th' = Leave(r)
                 /\ returned' = Returned(r, Err("ErrSend"))
                 /\ UNCHANGED freeq
    /\ UNCHANGED <<capacity, size, alloc_id, codes, started, schedVars>>
    /\ UNCHANGED <<removeVars, otherVars>>

\* the value produce returns after its loop
ProduceResult(entry, sz) == Ok(sz)

\* `return Ok(self.size())`
ProduceReturn(r) ==
    /\ r.pc = "prod_ret"
    /\ th' = Leave(r)
    /\ returned' = Returned(r, ProduceResult(r.entry, size))
    /\ UNCHANGED <<factoryVars, started, eloc, schedVars>>
    /\ UNCHANGED <<removeVars, otherVars>>

\* -------------------------------------------------------- VMFactory::new_vm
\* new_vm returns Some(vm) to its caller: the loop of produce, or call, whose
\* match goes on to async_run
NewVmSome(r, e) ==
    [r EXCEPT !.pc = IF r.op = "produce" THEN "prod_got" ELSE "async_run", !.vm = e]

\* new_vm returns None: to the loop of produce, or to call, whose match panics
\* the calling thread
NewVmNone(r) ==
    /\ IF r.op = "produce"
       THEN /\ th' = Step(r, [r EXCEPT !.pc = "prod_got", !.vm = NoVm])
            /\ UNCHANGED returned
       ELSE /\ th' = Leave(r)
            /\ returned' = Returned(r, Err("Panic"))

\* the load of size and the test of the capacity
NewVmLoad(r) ==
    /\ r.pc = "nv_load"
    /\ IF capacity # 0 /\ size < capacity
       THEN /\ th' = Step(r, [r EXCEPT !.pc = "nv_cas", !.curr_size = size])
            /\ UNCHANGED returned
       ELSE IF capacity # 0 /\ size >= capacity
            THEN NewVmNone(r)
            ELSE /\ th' = Step(r, [r EXCEPT !.pc = "nv_new"])
                 /\ UNCHANGED returned
    /\ UNCHANGED <<factoryVars, started, eloc, schedVars>>
    /\ UNCHANGED <<removeVars, otherVars>>

\* one turn of the loop around compare_and_swap
NewVmCas(r) ==
    /\ r.pc = "nv_cas"
    /\ size' = CompareAndSwap(size, r.curr_size, r.curr_size + 1)
    /\ LET arm == CasArm(size, r.curr_size, capacity) IN
         IF arm = "break"
         THEN /\ th' = Step(r, [r EXCEPT !.pc = "nv_new", !.reserved = (size' # size)])
              /\ UNCHANGED returned
         ELSE IF arm = "full"
              THEN NewVmNone(r)
              ELSE /\ th' = Step(r, [r EXCEPT !.curr_size = size])
                   /\ UNCHANGED returned
    /\ UNCHANGED <<capacity, alloc_id, codes, freeq, started, eloc, schedVars>>
    /\ UNCHANGED <<removeVars, otherVars>>

\* The construction of the engine and everything new_vm does with it before
\* it returns: JS::new with alloc_id.fetch_add(1), vm.load of every code,
\* new_global_template and alloc_global of a pooled engine. Each of these is a
\* call into the interpreter that may fail; which of them fails is an input.
\* None touches the factory's shared fields but the fetch_add.
NewVmOutcomes ==
    {"new_failed", "ok"}
      \cup (IF codes > 0 THEN {"load_failed"} ELSE {})
      \cup (IF capacity > 0 THEN {"template_failed", "alloc_failed"} ELSE {})

NewVmNew(r) ==
    /\ r.pc = "nv_new"
    /\ alloc_id' = alloc_id + 1
    /\ \E out \in NewVmOutcomes :
         /\ eloc' = Append(eloc, IF out = "ok" THEN "held" ELSE "dropped")
         /\ IF out = "ok"
            THEN /\ th' = Step(r, NewVmSome(r, alloc_id))
                 /\ UNCHANGED returned
            ELSE NewVmNone(r)
    /\ UNCHANGED <<capacity, size, codes, freeq, started, schedVars>>
    /\ UNCHANGED <<removeVars, otherVars>>

\* ---------------------------------------------------------- VMFactory::call
\* a thread enters call(src, ..)
StartCall(s) ==
    /\ started < NThreads
    /\ started' = started + 1
    /\ th' = th (+) SetToBag({[Frame EXCEPT !.pc = "call_recv", !.op = "call",
                                            !.src = s, !.entry = size]})
    /\ UNCHANGED <<factoryVars, returned, eloc, schedVars>>
    /\ UNCHANGED <<removeVars, otherVars>>

\* consumer.try_recv(): a free engine, or Empty and then new_vm
CallRecv(r) ==
    /\ r.pc = "call_recv"
    /\ IF freeq # <<>>
       THEN /\ freeq' = Tail(freeq)
            /\ eloc' = [eloc EXCEPT ![Head(freeq) + 1] = "held"]
            /\ th' = Step(r, [r EXCEPT !.pc = "async_run", !.vm = Head(freeq)])
       ELSE /\ th' = Step(r, [r EXCEPT !.pc = "nv_load", !.reserved = FALSE])
            /\ UNCHANGED <<freeq, eloc>>
    /\ UNCHANGED <<capacity, size, alloc_id, codes, started, returned, schedVars>>
    /\ UNCHANGED <<removeVars, otherVars>>

\* the task async_run casts
CallTask(r) == [id |-> ntask + 1, vm |-> r.vm, src |-> r.src, queue |-> r.queue]

\* async_run with src = None: cast_js_task(Async(false), JS_TASK_PRIORITY, None, ..)
AsyncRunNone(r) ==
    /\ r.pc = "async_run"
    /\ r.src = NoSrc
    /\ atasks' = atasks \cup {CallTask(r)}
    /\ ntask' = ntask + 1
    /\ eloc' = [eloc EXCEPT ![r.vm + 1] = "task"]
    /\ th' = Leave(r)
    /\ returned' = Returned(r, Ok(0))
    /\ UNCHANGED <<factoryVars, started, queues, squeue, posted, executed>>
    /\ UNCHANGED <<removeVars, otherVars>>

\* ------------------------------------------------------------------ new_queue
\* async_run with src = Some(id) calls new_queue(id): the block under
\* VM_FACTORY_QUEUES.read()
NewQueueRead(r) ==
    /\ r.pc = "async_run"
    /\ r.src # NoSrc
    /\ th' = Step(r, IF r.src \in DOMAIN queues
                     THEN [r EXCEPT !.pc = "cast_sync", !.queue = queues[r.src]]
                     ELSE [r EXCEPT !.pc = "nq_create"])
    /\ UNCHANGED <<factoryVars, started, returned, eloc, schedVars>>
    /\ UNCHANGED <<removeVars, otherVars>>

\* create_js_task_queue(JS_TASK_PRIORITY, false): a fresh scheduler queue
NewQueueCreate(r) ==
    /\ r.pc = "nq_create"
    /\ squeue' = Append(squeue, <<>>)
    /\ th' = Step(r, [r EXCEPT !.pc = "nq_insert", !.queue = Len(squeue) + 1])
    /\ UNCHANGED <<factoryVars, started, returned, eloc, queues, atasks, posted,
                   executed, ntask>>
    /\ UNCHANGED <<removeVars, otherVars>>

\* the insert under VM_FACTORY_QUEUES.write(): HashMap::insert replaces a mapping
NewQueueInsert(r) ==
    /\ r.pc = "nq_insert"
    /\ queues' = (r.src :> r.queue) @@ queues
    /\ th' = Step(r, [r EXCEPT !.pc = "cast_sync"])
    /\ UNCHANGED <<factoryVars, started, returned, eloc, squeue, atasks, posted,
                   executed, ntask>>
    /\ UNCHANGED <<removeVars, otherVars>>

\* --------------------------------------------------------------- remove_queue
\* HashMap::remove(&src): the table without the entry of src
QueuesRemove(s) == [x \in DOMAIN queues \ {s} |-> queues[x]]

\* remove_js_task_queue(q): the scheduler deletes the queue, or refuses
RemoveJsTaskQueue(q, deleted) == IF deleted THEN removed \cup {q} ELSE removed

\* the queue id is returned whenever the source was mapped
RemoveQueueResultMapped(s, deleted) == IF s \in DOMAIN queues THEN queues[s] ELSE NoQueue
\* what remove_queue returns: Some(q) inside both tests, None otherwise
RemoveQueueResult(s, deleted) ==
    IF s \in DOMAIN queues /\ deleted THEN queues[s] ELSE NoQueue

\* remove_queue(src), the whole of it under VM_FACTORY_QUEUES.write(): the
\* entry is taken out of the table, and the scheduler is asked to delete the
\* queue only if there was one
remove_queue(s) ==
    /\ rmlog.n < MaxRemoves
    /\ \E deleted \in BOOLEAN :
         /\ removed' = IF s \in DOMAIN queues
                        THEN RemoveJsTaskQueue(queues[s], deleted)
                        ELSE removed
         /\ rmlog' = [n |-> rmlog.n + 1, src |-> s, ret |-> RemoveQueueResult(s, deleted)]
    /\ queues' = QueuesRemove(s)
    /\ UNCHANGED <<factoryVars, th, started, returned, eloc, squeue, atasks, posted,
                   executed, ntask>>
    /\ UNCHANGED otherVars

\* cast_js_task(Sync(true), 0, Some(queue), ..): the task goes to the queue's tail
CastSync(r) ==
    /\ r.pc = "cast_sync"
    /\ squeue' = [squeue EXCEPT ![r.queue] = Append(@, CallTask(r))]
    /\ posted' = [posted EXCEPT ![r.src] = Append(@, ntask + 1)]
    /\ ntask' = ntask + 1
    /\ eloc' = [eloc EXCEPT ![r.vm + 1] = "task"]
    /\ th' = Leave(r)
    /\ returned' = Returned(r, Ok(0))
    /\ UNCHANGED <<factoryVars, started, queues, atasks, executed>>
    /\ UNCHANGED <<removeVars, otherVars>>

\* ------------------------------------------------------------------ scheduler
\* The closure async_run casts has run to its end: get_link_function, the
\* argument builder and vm.call(..) on the engine. When the call returns, a
\* pooled engine (one built with a reuse slot, which new_vm gives it when
\* capacity > 0) sends itself to the free queue through the slot's producer,
\* and another engine is destroyed.
EngineReturn(e) ==
    IF capacity # 0
    THEN IF Len(freeq) < QueueBound
         THEN /\ freeq' = Append(freeq, e)
              /\ eloc' = [eloc EXCEPT ![e + 1] = "free"]
         ELSE /\ eloc' = [eloc EXCEPT ![e + 1] = "rejected"]
              /\ UNCHANGED freeq
    ELSE /\ eloc' = [eloc EXCEPT ![e + 1] = "dropped"]
         /\ UNCHANGED freeq

\* a worker takes an async task and runs it
RunAsync(task) ==
    /\ task \in atasks
    /\ atasks' = atasks \ {task}
    /\ EngineReturn(task.vm)
    /\ UNCHANGED <<capacity, size, alloc_id, codes, th, started, returned, queues,
                   squeue, posted, executed, ntask>>
    /\ UNCHANGED <<removeVars, otherVars>>

\* a worker takes the task at the head of a sync queue and runs it
RunSync(q) ==
    /\ squeue[q] # <<>>
    /\ LET task == Head(squeue[q]) IN
         /\ squeue' = [squeue EXCEPT ![q] = Tail(@)]
         /\ executed' = [executed EXCEPT ![task.src] = Append(@, task.id)]
         /\ EngineReturn(task.vm)
    /\ UNCHANGED <<capacity, size, alloc_id, codes, th, started, returned, queues,
                   atasks, posted, ntask>>
    /\ UNCHANGED <<removeVars, otherVars>>

\* ------------------------------------------- VMFactory: clone, append, loader
\* Operations in progress borrow the handle they were called on. append and
\* drop take a handle by value, so they need one that no operation borrows;
\* the threads in progress are taken to work on handles of their own.
IdleHandle == BagCardinality(th) < handles

\* #[derive(Clone)] of VMFactory: the clone shares size, alloc_id, codes and
\* the free queue with the value it was cloned from
Clone ==
    /\ handles < MaxHandles
    /\ handles' = handles + 1
    /\ UNCHANGED <<poolVars, chanVars, loaders, lds, blockVars>>

\* a VMFactory value goes out of scope; the last one is kept, since with none
\* left nothing more can be called
DropFactory ==
    /\ handles > 1
    /\ IdleHandle
    /\ handles' = handles - 1
    /\ UNCHANGED <<poolVars, chanVars, loaders, lds, blockVars>>

\* a loader: offset and top, where its load_next is, and its history: the
\* calls of load_next that returned true, whether one returned false, the
\* calls of vm.load, the offset on entry of the last call and what it
\* returned, and whether a call after one that returned false loaded or
\* returned true
NewLoader(top) ==
    [offset |-> 0, top |-> top, pc |-> "idle", trues |-> 0, falsed |-> FALSE,
     loads |-> 0, entry |-> 0, last |-> "none", late |-> FALSE]

Loaders == BagToSet(lds)
LdStep(l, l2) == (lds (-) SetToBag({l})) (+) SetToBag({l2})

\* VMFactory::loader: the loader holds codes.clone(), one more owner of the list
Loader ==
    /\ loaders < MaxLoaders
    /\ loaders' = loaders + 1
    /\ lds' = lds (+) SetToBag({NewLoader(codes)})
    /\ UNCHANGED <<poolVars, chanVars, handles, blockVars>>

\* #[derive(Clone)] of VMFactoryLoader: offset, top and the list are copied;
\* the copy goes on from where the original is
CloneLoader(l) ==
    /\ loaders < MaxLoaders
    /\ l.pc = "idle"
    /\ loaders' = loaders + 1
    /\ lds' = lds (+) SetToBag({l})
    /\ UNCHANGED <<poolVars, chanVars, handles, blockVars>>

\* a VMFactoryLoader goes out of scope
DropLoader ==
    /\ loaders > 0
    /\ loaders' = loaders - 1
    /\ \E l \in Loaders : l.pc = "idle" /\ lds' = lds (-) SetToBag({l})
    /\ UNCHANGED <<poolVars, chanVars, handles, blockVars>>

\* the test lets a loader at its top go on
LoadNextDoneStrict(offset, top) == offset > top
\* load_next: `self.offset >= self.top`
LoadNextDone(offset, top) == offset >= top

\* load_next returns true: self.offset += 1
LoadNextTrue(l) ==
    [l EXCEPT !.pc = "idle", !.offset = @ + 1, !.trues = @ + 1, !.last = "true",
              !.late = @ \/ l.falsed]

\* load_next(vm): false when all blobs are loaded; otherwise vm.load of the
\* blob at offset, which the engine accepts (then load_next waits for is_ran)
\* or refuses (then it returns true at once)
LoadNext(l, accepted) ==
    /\ l.pc = "idle"
    /\ lds' = LdStep(l,
         IF LoadNextDone(l.offset, l.top)
         THEN [l EXCEPT !.entry = l.offset, !.last = "false", !.falsed = TRUE]
         ELSE LET l2 == [l EXCEPT !.entry = l.offset, !.loads = @ + 1,
                                  !.late = @ \/ l.falsed]
              IN  IF accepted THEN [l2 EXCEPT !.pc = "spin"] ELSE LoadNextTrue(l2))
    /\ UNCHANGED <<poolVars, chanVars, handles, loaders, blockVars>>

\* load_next: the loop `while !vm.is_ran() { pause() }` ends
LoadNextRan(l) ==
    /\ l.pc = "spin"
    /\ lds' = LdStep(l, LoadNextTrue(l))
    /\ UNCHANGED <<poolVars, chanVars, handles, loaders, blockVars>>

\* Arc::get_mut(&mut self.codes) is Some iff this handle is the only owner of
\* the list: the strong count is 1
GetMut(owners) == owners = 1

\* VMFactory::append(self, code): pushes the blob iff get_mut gave the list
VMFactoryAppend ==
    /\ IdleHandle
    /\ codes < MaxCodes
    /\ codes' = IF GetMut(handles + loaders) THEN codes + 1 ELSE codes
    /\ UNCHANGED <<capacity, size, alloc_id, freeq, th, started, returned, eloc,
                   schedVars, removeVars, otherVars>>

\* ------------------------------------------------- the engine and its queue
\* a coordinator operation: which of the three it is, the suspension the
\* engine was in when the host invoked it (0: none), whether it has lost a
\* status switch, and where its task is
BlockOp(kind) ==
    [kind |-> kind, posted |-> IF status = "MultiTask" THEN epoch ELSE 0,
     lost |-> FALSE, pc |-> "queued"]

BTasks == BagToSet(btasks)
BStep(t, t2) == (btasks (-) SetToBag({t})) (+) SetToBag({t2})
BLeave(t) == btasks (-) SetToBag({t})

\* dukc_vm_status_switch(vm, from, to): stores `to` iff the status is `from`,
\* and returns the status it found
VmStatusSwitch(cur, from, to) == IF cur = from THEN to ELSE cur

\* a test that takes every switch for won
SwitchWonAlways(prior) == TRUE
\* a test that takes every switch for lost
SwitchWonNever(prior) == FALSE
\* the test of the status the switch returned: `status == JSStatus::MultiTask`
SwitchWon(prior) == prior = "MultiTask"

\* The closure async_run casts is taken by a worker from its source queue,
\* which the scheduler locks: set_tasks(queue) binds the queue to the engine,
\* get_link_function, the argument builder, and vm.call starts the interpreter.
CallTaskBegin ==
    /\ status = "NoTask"
    /\ ~running
    /\ status' = "SingleTask"
    /\ running' = TRUE
    /\ bqlock' = TRUE
    /\ UNCHANGED <<poolVars, chanVars, appendVars, pushVars, epoch, bqueue, btasks,
                   nblock, ndone, sets, cbq, wakes, woken>>

\* the interpreter announces that it is about to block
EngineWaitBlock ==
    /\ running
    /\ status = "SingleTask"
    /\ epoch < MaxSuspensions
    /\ status' = "WaitBlock"
    /\ UNCHANGED <<poolVars, chanVars, appendVars, pushVars, running, epoch, bqueue,
                   bqlock, btasks, nblock, ndone, sets,
                   cbq, wakes, woken>>

\* the interpreter yields: it is paused with its value stack preserved, and
\* the worker that ran it is free
EngineSuspend ==
    /\ running
    /\ status = "WaitBlock"
    /\ status' = "MultiTask"
    /\ running' = FALSE
    /\ epoch' = epoch + 1
    /\ UNCHANGED <<poolVars, chanVars, appendVars, pushVars, bqueue, bqlock, btasks,
                   nblock, ndone, sets, cbq, wakes, woken>>

\* the synchronous code ends: the callbacks queued so far have been run, the
\* engine waits for callbacks or has no task, and its queue is unlocked
EngineFinish ==
    /\ running
    /\ status = "SingleTask"
    /\ running' = FALSE
    /\ status' \in {"WaitCallBack", "NoTask"}
    /\ cbq' = 0
    /\ phist' = [phist EXCEPT !.run = @ + cbq,
                              !.wcb = @ + IF status' = "WaitCallBack" THEN 1 ELSE 0]
    /\ bqlock' = FALSE
    /\ UNCHANGED <<poolVars, chanVars, appendVars, epoch, bqueue, btasks, nblock,
                   ndone, sets, wakes, woken,
                   ptasks, npush, plog, nresp, resplog>>

\* cast_js_task(Sync(false), 0, Some(queue), func, info), js.add_queue_len()
\* and unlock_js_task_queue(queue): the tail of all three operations
CastAndUnlock(op) ==
    /\ bqueue' = Append(bqueue, [op EXCEPT !.pc = "queued"])
    /\ bqlock' = FALSE

\* the host invokes block_set_global_var, block_reply or block_throw
BlockInvoke(kind) ==
    /\ nblock < MaxBlockOps
    /\ nblock' = nblock + 1
    /\ CastAndUnlock(BlockOp(kind))
    /\ sets' = IF kind = "set" THEN [sets EXCEPT !.invoked = @ + 1] ELSE sets
    /\ UNCHANGED <<poolVars, chanVars, appendVars, pushVars, status, running, epoch,
                   btasks, ndone, cbq, wakes, woken>>

block_set_global_var == BlockInvoke("set")
block_reply == BlockInvoke("reply")
block_throw == BlockInvoke("throw")

\* a worker takes the task at the head of the engine's queue, which locks it
BlockTaskPop ==
    /\ ~bqlock
    /\ bqueue # <<>>
    /\ bqueue' = Tail(bqueue)
    /\ bqlock' = TRUE
    /\ btasks' = btasks (+) SetToBag({[Head(bqueue) EXCEPT !.pc = "check_wb"]})
    /\ UNCHANGED <<poolVars, chanVars, appendVars, pushVars, status, running, epoch,
                   nblock, ndone, sets, cbq, wakes, woken>>

\* the task calls its own operation again: the same operation is cast to the
\* queue and the queue unlocked, and the task ends
Repost(t, lost) ==
    /\ CastAndUnlock([t EXCEPT !.lost = lost])
    /\ btasks' = BLeave(t)

\* first operand of the test all three tasks begin with:
\* dukc_vm_status_check(vm, WaitBlock) > 0
BlockCheckWaitBlock(t) ==
    /\ t.pc = "check_wb"
    /\ IF status = "WaitBlock"
       THEN Repost(t, t.lost)
       ELSE /\ btasks' = BStep(t, [t EXCEPT !.pc = "check_st"])
            /\ UNCHANGED <<bqueue, bqlock>>
    /\ UNCHANGED <<poolVars, chanVars, appendVars, pushVars, status, running, epoch,
                   nblock, ndone, sets, cbq, wakes, woken>>

\* second operand: dukc_vm_status_check(vm, SingleTask) > 0; otherwise the
\* else branch, which differs between set_global_var and reply / throw
BlockCheckSingleTask(t) ==
    /\ t.pc = "check_st"
    /\ IF status = "SingleTask"
       THEN Repost(t, t.lost)
       ELSE /\ btasks' = BStep(t, [t EXCEPT !.pc = IF t.kind = "set" THEN "check_mt"
                                                                      ELSE "switch"])
            /\ UNCHANGED <<bqueue, bqlock>>
    /\ UNCHANGED <<poolVars, chanVars, appendVars, pushVars, status, running, epoch,
                   nblock, ndone, sets, cbq, wakes, woken>>

\* block_set_global_var: dukc_vm_status_check(vm, MultiTask) > 0, a read of
\* the status that does not change it
SetCheckMultiTask(t) ==
    /\ t.pc = "check_mt"
    /\ IF status = "MultiTask"
       THEN /\ btasks' = BStep(t, [t EXCEPT !.pc = "act"])
            /\ UNCHANGED <<bqueue, bqlock>>
       ELSE Repost(t, t.lost)
    /\ UNCHANGED <<poolVars, chanVars, appendVars, pushVars, status, running, epoch,
                   nblock, ndone, sets, cbq, wakes, woken>>

\* the continuation is told of success whatever happened
SetNextAlwaysOk(built, wrote) == "Ok"
\* block_set_global_var: what next(..) is given: the match on var(js) and the
\* test of js.set_global_var(name, value)
SetNext(built, wrote) ==
    IF ~built THEN "NewGlobalVar" ELSE IF wrote THEN "Ok" ELSE "SetGlobalVar"

\* block_set_global_var: var(js) builds the value on the engine or fails,
\* js.set_global_var, called only with a value, writes it or fails, and
\* next(..) gets the outcome
SetAct(t, built, wrote) ==
    /\ t.pc = "act"
    /\ btasks' = BLeave(t)
    /\ ndone' = ndone + 1
    /\ sets' = [sets EXCEPT !.next = @ + 1,
                            !.written = @ + IF built /\ wrote THEN 1 ELSE 0,
                            !.last = [arg |-> SetNext(built, wrote),
                                      built |-> built, written |-> built /\ wrote]]
    /\ UNCHANGED <<poolVars, chanVars, appendVars, pushVars, status, running, epoch,
                   bqueue, bqlock, nblock, cbq, wakes, woken>>

\* block_reply / block_throw: dukc_vm_status_switch(vm, MultiTask, SingleTask)
\* and the test of the status it returned
ReplySwitch(t) ==
    /\ t.pc = "switch"
    /\ status' = VmStatusSwitch(status, "MultiTask", "SingleTask")
    /\ IF SwitchWon(status)
       THEN /\ btasks' = BStep(t, [t EXCEPT !.pc = "wake"])
            /\ UNCHANGED <<bqueue, bqlock>>
       ELSE Repost(t, TRUE)
    /\ UNCHANGED <<poolVars, chanVars, appendVars, pushVars, running, epoch, nblock,
                   ndone, sets, cbq, wakes, woken>>

\* block_reply: dukc_wakeup(vm, 0), result(js), dukc_continue(vm, ..);
\* block_throw: dukc_wakeup(vm, 1), dukc_new_error, dukc_continue(vm, ..).
\* dukc_continue resumes the interpreter on this worker.
ReplyWake(t) ==
    /\ t.pc = "wake"
    /\ wakes' = [wakes EXCEPT ![epoch] = @ + 1]
    /\ woken' = woken \cup {[kind |-> t.kind, posted |-> t.posted]}
    /\ running' = TRUE
    /\ btasks' = BLeave(t)
    /\ ndone' = ndone + 1
    /\ UNCHANGED <<poolVars, chanVars, appendVars, pushVars, status, epoch, bqueue,
                   bqlock, nblock, sets, cbq>>

\* ------------------------------------------------------------- push_callback
PTasks == BagToSet(ptasks)
PStep(p, p2) == (ptasks (-) SetToBag({p})) (+) SetToBag({p2})
PLeave(p) == ptasks (-) SetToBag({p})

\* push_callback returns the count JS::push gave it; a push_callback made by
\* VMChannel::response returns into response, which returns true
PushReturn(p, prior, dispatched) ==
    /\ ptasks' = PLeave(p)
    /\ plog' = plog \cup {[prior |-> prior, dispatched |-> dispatched]}
    /\ resplog' = IF p.via = "response"
                  THEN resplog \cup {[src |-> "VM", result |-> TRUE]}
                  ELSE resplog

\* push_callback, JS::push: the callback is appended to the engine's callback
\* queue
PushCallback(via) ==
    /\ npush < MaxCallbacks
    /\ npush' = npush + 1
    /\ cbq' = cbq + 1
    /\ ptasks' = ptasks (+) SetToBag({[pc |-> "switch", via |-> via, prior |-> "none"]})

\* the host pushes a callback
push_callback ==
    /\ PushCallback("host")
    /\ UNCHANGED <<poolVars, chanVars, appendVars, status, running, epoch, bqueue, bqlock,
                   btasks, nblock, ndone, sets, wakes, woken, plog, phist, nresp, resplog>>

\* every switch is taken for one that found WaitCallBack
CallbackSwitchWonAlways(prior) == TRUE
\* the test of the status the switch returned: `status == JSStatus::WaitCallBack`
CallbackSwitchWon(prior) == prior = "WaitCallBack"

\* push_callback: dukc_vm_status_switch(vm, WaitCallBack, SingleTask) and the
\* test of what it returned
PushSwitch(p) ==
    /\ p.pc = "switch"
    /\ status' = VmStatusSwitch(status, "WaitCallBack", "SingleTask")
    /\ IF CallbackSwitchWon(status)
       THEN /\ ptasks' = PStep(p, [p EXCEPT !.pc = "dispatch", !.prior = status])
            /\ UNCHANGED <<plog, resplog>>
       ELSE PushReturn(p, status, FALSE)
    /\ UNCHANGED <<poolVars, chanVars, appendVars, running, epoch, bqueue, bqlock, btasks,
                   nblock, ndone, sets, cbq, wakes, woken, npush, phist, nresp>>

\* push_callback: handle_async_callback(js, vm) runs the dispatcher on the
\* calling thread, which starts the interpreter on the queued callbacks
PushDispatch(p) ==
    /\ p.pc = "dispatch"
    /\ running' = TRUE
    /\ phist' = [phist EXCEPT !.disp = @ + 1]
    /\ PushReturn(p, p.prior, TRUE)
    /\ UNCHANGED <<poolVars, chanVars, appendVars, status, epoch, bqueue, bqlock, btasks,
                   nblock, ndone, sets, cbq, wakes, woken, npush, nresp>>

\* ------------------------------------------------------- VMChannel::response
\* every channel is taken for one whose source is an engine
ResponseToVmAlways(src) == TRUE
\* the match on self.src: the arm VMChannelPeer::VM
ResponseToVm(src) == src = "VM"

\* response(callback, result) on a channel whose source is src: push_callback
\* on the source engine and true, or false
response(src) ==
    /\ nresp["Any"] + nresp["VM"] < MaxResponses
    /\ nresp' = [nresp EXCEPT ![src] = @ + 1]
    /\ IF ResponseToVm(src)
       THEN /\ PushCallback("response")
            /\ UNCHANGED resplog
       ELSE /\ resplog' = resplog \cup {[src |-> src, result |-> FALSE]}
            /\ UNCHANGED <<cbq, ptasks, npush>>
    /\ UNCHANGED <<poolVars, chanVars, appendVars, status, running, epoch, bqueue, bqlock,
                   btasks, nblock, ndone, sets, wakes, woken, plog, phist>>

\* ------------------------------------------------------ the channel registry
\* VMChannelMap::size
VMChannelMapSize(mp) == Cardinality(DOMAIN mp)

\* a register is counted as one of a new name whatever the map holds
SetOccupiedNever(mp, name) == FALSE
\* VMChannelMap::set, the arm Entry::Occupied
SetOccupied(mp, name) == name \in DOMAIN mp

\* VMChannelMap::set: the map afterwards (insert, or e.insert on an occupied entry)
VMChannelMapSet(mp, name, h) == (name :> h) @@ mp
\* VMChannelMap::set: what it returns
SetPrevious(mp, name) == IF SetOccupied(mp, name) THEN mp[name] ELSE NoHandler

\* VMChannelMap::remove: the map afterwards, and what it returns
VMChannelMapRemove(mp, name) == [n \in DOMAIN mp \ {name} |-> mp[n]]
RemovePrevious(mp, name) == IF name \in DOMAIN mp THEN mp[name] ELSE NoHandler

\* a write guard is given while read guards are held
WriteLockAlways(rd) == TRUE
\* VM_CHANNELS.write(): the RwLock gives the write guard when no guard is held
\* (the operations under a write guard are single steps, so none is held then)
WriteLock(rd) == rd = 0

RegOps == regs.new + regs.replaced + regs.removed

\* set_channels_gray(g): VMChannelMap::set_gray under the write guard
set_channels_gray(g) ==
    /\ WriteLock(readers)
    /\ gray' = g
    /\ UNCHANGED <<map, readers, regs, rq, nreq, reqlog>>
    /\ UNCHANGED <<poolVars, appendVars, blockVars>>

\* register_async_request(name, h): VMChannelMap::set under the write guard
register_async_request(name, h) ==
    /\ RegOps < MaxRegOps
    /\ WriteLock(readers)
    /\ map' = VMChannelMapSet(map, name, h)
    /\ regs' = IF SetPrevious(map, name) = NoHandler
               THEN [regs EXCEPT !.new = @ + 1]
               ELSE [regs EXCEPT !.replaced = @ + 1]
    /\ UNCHANGED <<gray, readers, rq, nreq, reqlog>>
    /\ UNCHANGED <<poolVars, appendVars, blockVars>>

\* unregister_async_request(name): VMChannelMap::remove under the write guard
unregister_async_request(name) ==
    /\ RegOps < MaxRegOps
    /\ WriteLock(readers)
    /\ map' = VMChannelMapRemove(map, name)
    /\ regs' = IF RemovePrevious(map, name) = NoHandler
               THEN regs
               ELSE [regs EXCEPT !.removed = @ + 1]
    /\ UNCHANGED <<gray, readers, rq, nreq, reqlog>>
    /\ UNCHANGED <<poolVars, appendVars, blockVars>>

\* get_async_request_size(): VMChannelMap::size under a read guard
get_async_request_size == VMChannelMapSize(map)

\* VMChannel::new
VMChannelNew(src, dst) == [src |-> src, dst |-> dst, gray |-> NoGray]
NoChannel == VMChannelNew("none", "none")

RqFrames == BagToSet(rq)
RqStep(r, r2) == (rq (-) SetToBag({r})) (+) SetToBag({r2})
RqLeave(r) == rq (-) SetToBag({r})
\* what a returned async_request leaves in the history
RqReturned(r, res) ==
    [name |-> r.name, registered |-> r.registered, handler |-> r.handler,
     calls |-> r.calls, result |-> res]

\* async_request(js, name, ..): takes a read guard of VM_CHANNELS and enters
\* VMChannelMap::request
async_request(name) ==
    /\ nreq < MaxRequests
    /\ nreq' = nreq + 1
    /\ readers' = readers + 1
    /\ rq' = rq (+) SetToBag({[pc |-> "get", name |-> name, registered |-> FALSE,
                               handler |-> NoHandler, ch |-> NoChannel, calls |-> 0,
                               write |-> "none"]})
    /\ UNCHANGED <<gray, map, regs, reqlog>>
    /\ UNCHANGED <<poolVars, appendVars, blockVars>>

\* request: self.map.get(&name); None returns false and the guard is dropped
RequestGet(r) ==
    /\ r.pc = "get"
    /\ IF r.name \in DOMAIN map
       THEN /\ rq' = RqStep(r, [r EXCEPT !.pc = "channel", !.registered = TRUE,
                                         !.handler = map[r.name]])
            /\ UNCHANGED <<readers, reqlog>>
       ELSE /\ rq' = RqLeave(r)
            /\ readers' = readers - 1
            /\ reqlog' = reqlog \cup {RqReturned(r, FALSE)}
    /\ UNCHANGED <<gray, map, regs, nreq>>
    /\ UNCHANGED <<poolVars, appendVars, blockVars>>

\* request: VMChannel::new(VM(js), Any) and set_attr("_$gray", USize(self.gray))
RequestChannel(r) ==
    /\ r.pc = "channel"
    /\ rq' = RqStep(r, [r EXCEPT !.pc = "handle",
                                 !.ch = [VMChannelNew("VM", "Any") EXCEPT !.gray = gray]])
    /\ UNCHANGED <<gray, map, readers, regs, nreq, reqlog>>
    /\ UNCHANGED <<poolVars, appendVars, blockVars>>

\* request: handler.handle(channel, name, ThreeArgs(msg, native_objs, callback))
\* is entered, on the thread of async_request and under its read guard
RequestHandle(r) ==
    /\ r.pc = "handle"
    /\ rq' = RqStep(r, [r EXCEPT !.pc = "in_handler", !.calls = @ + 1])
    /\ UNCHANGED <<gray, map, readers, regs, nreq, reqlog>>
    /\ UNCHANGED <<poolVars, appendVars, blockVars>>

\* the registry's writers a handler can call
HandlerWrites == {"gray", "register", "unregister"}

\* The handler calls set_channels_gray, register_async_request or
\* unregister_async_request before it returns: VM_CHANNELS.write() on the
\* thread that holds the read guard of async_request. The thread has the
\* write guard when the lock gives it, and then the writer does what it does
\* when the host calls it and the handler goes on; until then the thread waits
\* in write().
HandlerWrite(r, op) ==
    /\ \/ r.pc = "in_handler" /\ r.write = "none"
       \/ r.pc = "write_wait" /\ r.write = op
    /\ IF WriteLock(readers)
       THEN /\ rq' = RqStep(r, [r EXCEPT !.pc = "in_handler", !.write = "done"])
            /\ \/ /\ op = "gray"
                  /\ \E g \in 0..MaxGray : gray' = g
                  /\ UNCHANGED <<map, regs>>
               \/ /\ op = "register"
                  /\ RegOps < MaxRegOps
                  /\ \E name \in Names, h \in Handlers :
                       /\ map' = VMChannelMapSet(map, name, h)
                       /\ regs' = IF SetPrevious(map, name) = NoHandler
                                  THEN [regs EXCEPT !.new = @ + 1]
                                  ELSE [regs EXCEPT !.replaced = @ + 1]
                  /\ UNCHANGED gray
               \/ /\ op = "unregister"
                  /\ RegOps < MaxRegOps
                  /\ \E name \in Names :
                       /\ map' = VMChannelMapRemove(map, name)
                       /\ regs' = IF RemovePrevious(map, name) = NoHandler
                                  THEN regs
                                  ELSE [regs EXCEPT !.removed = @ + 1]
                  /\ UNCHANGED gray
       ELSE /\ rq' = RqStep(r, [r EXCEPT !.pc = "write_wait", !.write = op])
            /\ UNCHANGED <<gray, map, regs>>
    /\ UNCHANGED <<readers, nreq, reqlog>>
    /\ UNCHANGED <<poolVars, appendVars, blockVars>>

\* the handler returns, request returns true and async_request drops the guard
RequestReturn(r) ==
    /\ r.pc = "in_handler"
    /\ rq' = RqLeave(r)
    /\ readers' = readers - 1
    /\ reqlog' = reqlog \cup {RqReturned(r, TRUE)}
    /\ UNCHANGED <<gray, map, regs, nreq>>
    /\ UNCHANGED <<poolVars, appendVars, blockVars>>

\* the factory used by threads that produce and call without a source
Next ==
    \/ \E n \in 0..(capacity + 1) : StartProduce(n)
    \/ \E r \in Frames : ProduceCheck(r)
    \/ \E r \in Frames : ProduceGot(r)
    \/ \E r \in Frames : ProduceReturn(r)
    \/ \E r \in Frames : NewVmLoad(r)
    \/ \E r \in Frames : NewVmCas(r)
    \/ \E r \in Frames : NewVmNew(r)
    \/ StartCall(NoSrc)
    \/ \E r \in Frames : CallRecv(r)
    \/ \E r \in Frames : AsyncRunNone(r)
    \/ \E task \in atasks : RunAsync(task)

Spec == Init /\ [][Next]_vars

\* the factory used by threads that call with a source id
NextSrc ==
    \/ \E s \in Sources : StartCall(s)
    \/ \E r \in Frames : CallRecv(r)
    \/ \E r \in Frames : NewVmLoad(r)
    \/ \E r \in Frames : NewVmCas(r)
    \/ \E r \in Frames : NewVmNew(r)
    \/ \E r \in Frames : NewQueueRead(r)
    \/ \E r \in Frames : NewQueueCreate(r)
    \/ \E r \in Frames : NewQueueInsert(r)
    \/ \E r \in Frames : CastSync(r)
    \/ \E q \in DOMAIN squeue : RunSync(q)

SpecSrc == Init /\ [][NextSrc]_vars

\* the same threads on a factory that does not pool its engines, so that
\* new_vm makes no compare_and_swap, and a host that removes the queues of
\* sources
InitQueue == Init /\ capacity = 0

NextQueue ==
    \/ \E s \in Sources : StartCall(s)
    \/ \E r \in Frames : CallRecv(r)
    \/ \E r \in Frames : NewVmLoad(r)
    \/ \E r \in Frames : NewVmNew(r)
    \/ \E r \in Frames : NewQueueRead(r)
    \/ \E r \in Frames : NewQueueCreate(r)
    \/ \E r \in Frames : NewQueueInsert(r)
    \/ \E r \in Frames : CastSync(r)
    \/ \E q \in DOMAIN squeue : RunSync(q)
    \/ \E s \in Sources : remove_queue(s)

SpecQueue == InitQueue /\ [][NextQueue]_vars

\* the factory's handles and loaders, append, and threads that produce
NextAppend ==
    \/ Clone
    \/ DropFactory
    \/ Loader
    \/ DropLoader
    \/ VMFactoryAppend
    \/ \E n \in 0..(capacity + 1) : StartProduce(n)
    \/ \E r \in Frames : ProduceCheck(r)
    \/ \E r \in Frames : ProduceGot(r)
    \/ \E r \in Frames : ProduceReturn(r)
    \/ \E r \in Frames : NewVmLoad(r)
    \/ \E r \in Frames : NewVmCas(r)
    \/ \E r \in Frames : NewVmNew(r)

SpecAppend == Init /\ [][NextAppend]_vars

\* an unpooled factory without code
InitLoader == Init /\ capacity = 0

\* the loaders of a factory whose code list grows while no loader is alive
NextLoader ==
    \/ Clone
    \/ DropFactory
    \/ VMFactoryAppend
    \/ Loader
    \/ \E l \in Loaders : CloneLoader(l)
    \/ DropLoader
    \/ \E l \in Loaders, accepted \in BOOLEAN : LoadNext(l, accepted)
    \/ \E l \in Loaders : LoadNextRan(l)

SpecLoader == InitLoader /\ [][NextLoader]_vars

\* one engine, of an unpooled factory
InitBlock == Init /\ capacity = 0

\* the engine, its bound queue and the coordinator
NextBlock ==
    \/ CallTaskBegin
    \/ EngineWaitBlock
    \/ EngineSuspend
    \/ EngineFinish
    \/ block_set_global_var
    \/ block_reply
    \/ block_throw
    \/ BlockTaskPop
    \/ \E t \in BTasks : BlockCheckWaitBlock(t)
    \/ \E t \in BTasks : BlockCheckSingleTask(t)
    \/ \E t \in BTasks : SetCheckMultiTask(t)
    \/ \E t \in BTasks, built \in BOOLEAN, wrote \in BOOLEAN : SetAct(t, built, wrote)
    \/ \E t \in BTasks : ReplySwitch(t)
    \/ \E t \in BTasks : ReplyWake(t)

SpecBlock == InitBlock /\ [][NextBlock]_vars

\* a step of the coordinator task t
TaskStep(t) ==
    \/ BlockCheckWaitBlock(t)
    \/ BlockCheckSingleTask(t)
    \/ SetCheckMultiTask(t)
    \/ \E built \in BOOLEAN, wrote \in BOOLEAN : SetAct(t, built, wrote)
    \/ ReplySwitch(t)
    \/ ReplyWake(t)

\* what a coordinator task in the hands of a worker can be
TaskStates ==
    [kind : {"set", "reply", "throw"}, posted : 0..MaxSuspensions, lost : BOOLEAN,
     pc : {"check_wb", "check_st", "check_mt", "act", "switch", "wake"}]

\* A fair scheduler: it leaves no queue locked for ever, a queued task whose
\* queue is unlocked again and again is taken, and a worker that has taken a
\* task goes on with it, whichever operation the task belongs to. The
\* interpreter goes on while it runs. Nothing obliges the host to invoke an
\* operation or to start a call.
FairBlock ==
    /\ []<>(~bqlock)
    /\ SF_vars(BlockTaskPop)
    /\ \A t \in TaskStates : WF_vars(t \in BTasks /\ TaskStep(t))
    /\ WF_vars(EngineSuspend)
    /\ WF_vars(EngineWaitBlock \/ EngineFinish)

SpecBlockFair == InitBlock /\ [][NextBlock]_vars /\ FairBlock

\* the engine, the callbacks pushed to it and the responses on its channels
NextPush ==
    \/ CallTaskBegin
    \/ EngineWaitBlock
    \/ EngineSuspend
    \/ EngineFinish
    \/ push_callback
    \/ \E p \in PTasks : PushSwitch(p)
    \/ \E p \in PTasks : PushDispatch(p)
    \/ \E src \in {"Any", "VM"} : response(src)

SpecPush == InitBlock /\ [][NextPush]_vars

\* the channel registry beside an unpooled factory
InitChan == Init /\ capacity = 0

\* the registry's operations and the requests of the engines
NextChan ==
    \/ \E g \in 0..MaxGray : set_channels_gray(g)
    \/ \E name \in Names, h \in Handlers : register_async_request(name, h)
    \/ \E name \in Names : unregister_async_request(name)
    \/ \E name \in Names : async_request(name)
    \/ \E r \in RqFrames : RequestGet(r)
    \/ \E r \in RqFrames : RequestChannel(r)
    \/ \E r \in RqFrames : RequestHandle(r)
    \/ \E r \in RqFrames, op \in HandlerWrites : HandlerWrite(r, op)
    \/ \E r \in RqFrames : RequestReturn(r)

SpecChan == InitChan /\ [][NextChan]_vars

\* ===================================================================== claims
\* frame r is the one that makes the step
Moved(r) == CopiesIn(r, th') < CopiesIn(r, th)
\* the step is new_vm returning None to the operation of frame r
NewVmReturnsNone(r) ==
    /\ r.pc \in {"nv_load", "nv_cas", "nv_new"}
    /\ Moved(r)
    /\ \/ th' = Leave(r)
       \/ th' = Step(r, [r EXCEPT !.pc = "prod_got", !.vm = NoVm])
\* the new_vm invocations that hold a reserved size slot and have not returned
Reserving == LET S == {r \in Frames : r.pc = "nv_new" /\ r.reserved}
             IN  BagCardinality([r \in S |-> th[r]])
\* engines a thread holds or a cast task carries, and slots reserved for an
\* engine under construction
InUse == Cardinality({e \in DOMAIN eloc : eloc[e] \in {"held", "task"}}) + Reserving

\* C1: in a factory of capacity k > 0 the size counter never exceeds k, in
\* every interleaving of produce and call
C1_SizeWithinCapacity == capacity > 0 => size <= capacity

\* C1 witness: the pool is full while another thread is about to do its
\* compare_and_swap with the size it loaded before
C1_Witness ==
    /\ capacity > 0
    /\ size = capacity
    /\ \E r \in Frames : r.pc = "nv_cas" /\ r.curr_size < size

\* C6: in a pooled factory the free queue holds size minus the engines in
\* use, and no engine's return to the free queue is rejected
C6_FreeQueueAccounting ==
    capacity > 0 =>
        /\ Len(freeq) = size - InUse
        /\ \A e \in DOMAIN eloc : eloc[e] # "rejected"

\* C8: a produce that succeeds returns the size the factory had on entry
C8_ProduceReturnsEntrySize ==
    [][\A r \in Frames :
          (r.op = "produce" /\ th' = Leave(r) /\ returned'.result.kind = "Ok")
              => returned'.result.val = r.entry]_vars

\* C9: produce(n) with n >= 1 and size + n > capacity returns the capacity
\* error and leaves size, alloc_id, the free queue and the engines as they
\* were; produce(0) returns Ok and leaves them as they were
C9_ProduceFullChangesNothing ==
    [][\A r \in Frames :
          (r.pc = "prod_check" /\ Moved(r)) =>
              /\ (r.count >= 1 /\ size + r.count > capacity) =>
                    /\ th' = Leave(r)
                    /\ returned' = Returned(r, Err("ErrFull"))
                    /\ UNCHANGED <<size, alloc_id, freeq, eloc>>
              /\ (r.count = 0) =>
                    /\ th' = Leave(r)
                    /\ returned'.result.kind = "Ok"
                    /\ UNCHANGED <<size, alloc_id, freeq, eloc>>]_vars

\* C9 witness: a pooled factory at its capacity with an engine in flight, and
\* a produce(n), n >= 1, that has returned the capacity error
C9_Witness ==
    /\ capacity > 0
    /\ size = capacity
    /\ \E e \in DOMAIN eloc : eloc[e] = "task"
    /\ returned.op = "produce"
    /\ returned.count >= 1
    /\ returned.result.kind = "ErrFull"

\* C10: when new_vm returns None, the size slot the invocation reserved has
\* been given back
C10_FailureReleasesSlot ==
    [][\A r \in Frames :
          NewVmReturnsNone(r) => size' = (IF r.reserved THEN size - 1 ELSE size)]_vars

\* C3: the tasks cast for a source are taken by the workers in cast order
C3_SourceOrder == \A s \in Sources : IsPrefix(executed[s], posted[s])

\* an engine exists that was constructed from the factory
Constructed == \E e \in DOMAIN eloc : eloc[e] \in {"held", "free", "task"}

\* C7: once an engine has been constructed from the factory, no append on any
\* handle of it makes the code list longer
C7_NoAppendAfterConstruction == [][Constructed => codes' = codes]_vars

\* workers executing on the engine: the one running the interpreter, and the
\* coordinator tasks that are performing their action
Executors ==
    LET A == {t \in BTasks : t.pc \in {"act", "wake"}}
    IN  (IF running THEN 1 ELSE 0) + BagCardinality([t \in A |-> btasks[t]])

\* C2: at no time do two workers execute on the same engine
C2_EngineExclusive == Executors <= 1

\* C4: within one suspension of the engine dukc_wakeup is called at most once
C4_OneWakePerSuspension == \A k \in DOMAIN wakes : wakes[k] <= 1

\* C4 witness: in the current suspension one operation has woken the engine
\* and another one, invoked during the same suspension, has lost the switch
C4_Witness ==
    /\ epoch >= 1
    /\ wakes[epoch] = 1
    /\ \E k \in DOMAIN bqueue :
          bqueue[k].lost /\ bqueue[k].posted = epoch /\ bqueue[k].kind # "set"

\* C5: of a reply and a throw invoked for the same suspension, at most one
\* ever calls dukc_wakeup
C5_LoserNeverWakes ==
    \A w1, w2 \in woken :
        (w1.posted # 0 /\ w1.posted = w2.posted) => w1.kind = w2.kind

\* the queue ids that invocations of new_queue(s) hold or have cast their task to
QueuesOf(s) ==
    {r.queue : r \in {f \in Frames : f.src = s /\ f.pc \in {"nq_insert", "cast_sync"}}}
    \cup {q \in DOMAIN squeue : \E k \in DOMAIN squeue[q] : squeue[q][k].src = s}
    \cup {queues[x] : x \in {s} \cap DOMAIN queues}

\* C11: all invocations of new_queue(s) get the same queue id, and no more
\* scheduler queues are created than there are sources
C11_OneQueuePerSource ==
    /\ \A s \in Sources : Cardinality(QueuesOf(s)) <= 1
    /\ Len(squeue) <= Cardinality(Sources)

\* C12, counting every register: size() is the number of register calls minus the number of
\* unregister calls that removed a handler, a register that replaces the
\* handler of a registered name being counted like any other
C12_SizeCountsRegisters ==
    get_async_request_size = (regs.new + regs.replaced) - regs.removed

\* C12, counting new names: size() is the number of register calls that found the name vacant
\* (returned None) minus the number of unregister calls that returned a handler
C12_SizeCountsNewNames == get_async_request_size = regs.new - regs.removed

\* C12 witness: a name was registered twice and a handler was removed, and
\* a handler is still registered
C12_Witness ==
    /\ regs.replaced >= 1
    /\ regs.removed >= 1
    /\ get_async_request_size >= 1

\* C13: a request for a name that is not registered returns false and invokes
\* no handler; otherwise it invokes, once, the handler that is registered under
\* the name when it is invoked, with a channel from the engine to Any whose
\* _$gray is the registry's gray value at that moment, and returns true
C13_RequestInvokesRegistered ==
    /\ \A l \in reqlog :
         IF l.registered
         THEN l.result /\ l.calls = 1 /\ l.handler # NoHandler
         ELSE ~l.result /\ l.calls = 0 /\ l.handler = NoHandler
    /\ \A r \in RqFrames :
         /\ r.pc \in {"channel", "handle"} =>
              r.name \in DOMAIN map /\ map[r.name] = r.handler
         /\ r.pc = "handle" => r.ch = [src |-> "VM", dst |-> "Any", gray |-> gray]

\* C13 witness: a request is about to invoke the handler that replaced an
\* earlier one, under a gray value that was set, and another request has
\* returned false
C13_Witness ==
    /\ regs.replaced >= 1
    /\ \E r \in RqFrames : r.pc = "handle" /\ r.ch.gray > 0
    /\ \E l \in reqlog : ~l.result

\* the step is a response on a channel whose source is src
ResponseStep(src) == nresp'[src] # nresp[src]

\* C14: a response on a channel whose source is Any returns false, pushes no
\* callback and changes nothing of an engine; a response on a channel whose
\* source is an engine pushes one callback to that engine and returns true
C14_ResponseBySource ==
    /\ [](\A l \in resplog : l.result = (l.src = "VM"))
    /\ [][/\ ResponseStep("Any") =>
               /\ UNCHANGED <<status, running, cbq, ptasks, npush>>
               /\ [src |-> "Any", result |-> FALSE] \in resplog'
          /\ ResponseStep("VM") =>
               /\ cbq' = cbq + 1
               /\ npush' = npush + 1
               /\ BagCardinality(ptasks') = BagCardinality(ptasks) + 1]_vars

\* C14 witness: a response to Any and a response to the engine have both
\* returned, the second after its callback was dispatched
C14_Witness ==
    /\ [src |-> "Any", result |-> FALSE] \in resplog
    /\ [src |-> "VM", result |-> TRUE] \in resplog
    /\ phist.disp >= 1

\* the push_callback invocations that are about to run the dispatcher
Dispatching == LET S == {p \in PTasks : p.pc = "dispatch"}
               IN  BagCardinality([p \in S |-> ptasks[p]])

\* C18: push_callback runs the dispatcher exactly when its own switch found
\* WaitCallBack; each time the engine waits for callbacks one push_callback at
\* most takes it out of that status and runs the dispatcher, the others only
\* enqueue; and every callback pushed is in the queue or has been run
C18_OneDispatcherPerWait ==
    /\ \A p \in PTasks : p.pc = "dispatch" => p.prior = "WaitCallBack"
    /\ \A l \in plog : l.dispatched = (l.prior = "WaitCallBack")
    /\ Dispatching + (IF running THEN 1 ELSE 0) <= 1
    /\ phist.disp + Dispatching = phist.wcb - (IF status = "WaitCallBack" THEN 1 ELSE 0)
    /\ npush = cbq + phist.run

\* C18 witness: two push_callback invocations found the engine waiting for
\* callbacks; one has switched it and is about to run the dispatcher, the
\* other has lost the switch and returned
C18_Witness ==
    /\ Dispatching = 1
    /\ cbq = 2
    /\ \E l \in plog : ~l.dispatched /\ l.prior = "SingleTask"

\* C15: load_next returns false exactly when offset = top on entry; offset
\* counts the calls that returned true and never exceeds top; each such call
\* loaded one blob; and after a call that returned false no call loads or
\* returns true
C15_LoadNextUntilTop ==
    \A l \in Loaders :
        /\ l.offset <= l.top
        /\ l.trues = l.offset
        /\ l.loads = l.trues + (IF l.pc = "spin" THEN 1 ELSE 0)
        /\ l.last = "false" => l.entry = l.top
        /\ l.last = "true" => l.entry < l.top
        /\ l.falsed => l.offset = l.top
        /\ ~l.late

\* C15 witness: a loader of a non-empty list has loaded every blob and has
\* then returned false
C15_Witness ==
    \E l \in Loaders : l.top > 0 /\ l.trues = l.top /\ l.last = "false"

\* the call invocations that hold an engine they have not cast yet
CallsHolding == LET S == {r \in Frames : r.op = "call" /\ r.pc = "async_run"}
                IN  BagCardinality([r \in S |-> th[r]])

\* C16: in a factory of capacity 0 size stays 0 and the free queue stays
\* empty, no engine reaches the free queue by produce or by returning itself,
\* and every call has an engine of its own that new_vm constructed for it
C16_UnpooledNeverQueues ==
    capacity = 0 =>
        /\ size = 0
        /\ freeq = <<>>
        /\ \A e \in DOMAIN eloc : eloc[e] \notin {"free", "rejected"}
        /\ ntask + CallsHolding <= alloc_id
        /\ \A t1, t2 \in atasks : t1.vm = t2.vm => t1 = t2

\* C16 witness: in a factory of capacity 0 two calls have constructed an
\* engine each, and both tasks have run and their engines are gone
C16_Witness ==
    /\ capacity = 0
    /\ ntask = 2
    /\ atasks = {}
    /\ alloc_id = 2
    /\ \A e \in DOMAIN eloc : eloc[e] = "dropped"

\* C17: in a pooled factory new_vm constructs an engine only after its own
\* compare_and_swap succeeded, so no more engines are constructed than the
\* capacity
C17_ConstructAfterOwnCas ==
    capacity > 0 =>
        /\ \A r \in Frames : r.pc = "nv_new" => r.reserved
        /\ Cardinality({e \in DOMAIN eloc : eloc[e] # "dropped"}) <= capacity

\* C19: a coordinator task performs its action only while the engine's status
\* is MultiTask, and every operation the host invoked has performed its
\* action or has exactly one task pending
C19_ActOnlyInMultiTask ==
    /\ \A t \in BTasks : t.pc = "act" => status = "MultiTask"
    /\ nblock = ndone + Len(bqueue) + BagCardinality(btasks)

\* an operation of kind k that the host invoked during suspension e of the
\* engine has a task queued or being executed
Pending(k, e) ==
    \/ \E i \in DOMAIN bqueue : bqueue[i].kind = k /\ bqueue[i].posted = e
    \/ \E t \in BTasks : t.kind = k /\ t.posted = e

PendingWake == \E k \in {"reply", "throw"}, e \in 0..MaxSuspensions : Pending(k, e)

SetsPending ==
    LET held == {t \in BTasks : t.kind = "set"}
    IN  Cardinality({i \in 1..Len(bqueue) : bqueue[i].kind = "set"})
        + BagCardinality([t \in held |-> CopiesIn(t, btasks)])

\* a step of block_set_global_var: its invocation or a step of its task
SetStep ==
    \/ sets' # sets
    \/ \E t \in BTasks : t.kind = "set" /\ TaskStep(t)

\* C21: no step of block_set_global_var changes the engine's status, wakes the
\* interpreter or makes it run, so an engine in MultiTask before the step is
\* in MultiTask after it; every operation that is no longer queued or held
\* has invoked its continuation exactly once; and the continuation gets Ok
\* exactly when the global was written, NewGlobalVar exactly when the value
\* was not built, in which case nothing is written, and SetGlobalVar exactly
\* when the value was built and the write failed.
C21_SetKeepsStatusOneNext ==
    /\ [](/\ sets.invoked = sets.next + SetsPending
          /\ sets.written <= sets.next
          /\ sets.next = 0 <=> sets.last = NoNext
          /\ sets.next > 0 =>
               /\ sets.last.arg = "Ok" <=> sets.last.written
               /\ sets.last.arg = "NewGlobalVar" <=> ~sets.last.built
               /\ sets.last.arg = "SetGlobalVar"
                    <=> (sets.last.built /\ ~sets.last.written)
               /\ ~sets.last.built => ~sets.last.written)
    /\ [][SetStep => UNCHANGED <<status, running, epoch, wakes, woken>>]_vars

\* two operations have completed on an engine that is in MultiTask, one that
\* wrote its global and one whose continuation got an error
C21_Witness ==
    /\ status = "MultiTask"
    /\ sets.next = 2
    /\ sets.written = 1
    /\ sets.last.arg \in {"NewGlobalVar", "SetGlobalVar"}

\* ---- C22 ----

\* a remove_queue(s) has just returned
RemoveQueueStep(s) == rmlog'.n = rmlog.n + 1 /\ rmlog'.src = s

\* an invocation of new_queue(s) makes its read of the table
NewQueueReads(r) ==
    /\ r.pc = "async_run"
    /\ r.src # NoSrc
    /\ CopiesIn(r, th') < CopiesIn(r, th)

\* C22: remove_queue(s) returns the queue id exactly when s was mapped and
\* the scheduler deleted that queue; when s is unmapped it returns nothing
\* and leaves the table as it was; after it, whatever it returned, s is
\* unmapped and the other sources are mapped as before; and a new_queue(s)
\* that reads the table while s is unmapped goes on to create a scheduler
\* queue, which is none of the queues created or deleted before.
C22_RemoveQueue ==
    /\ [][\A s \in Sources : RemoveQueueStep(s) =>
            /\ rmlog'.ret # NoQueue
                 <=> (s \in DOMAIN queues /\ queues[s] \in removed' \ removed)
            /\ rmlog'.ret # NoQueue => rmlog'.ret = queues[s]
            /\ s \notin DOMAIN queues => (queues' = queues /\ removed' = removed)
            /\ s \notin DOMAIN queues'
            /\ \A x \in DOMAIN queues \ {s} : x \in DOMAIN queues' /\ queues'[x] = queues[x]]_vars
    /\ [][\A r \in Frames : (NewQueueReads(r) /\ r.src \notin DOMAIN queues) =>
            CopiesIn([r EXCEPT !.pc = "nq_create"], th')
              > CopiesIn([r EXCEPT !.pc = "nq_create"], th)]_vars
    /\ [][Len(squeue') > Len(squeue) =>
            /\ Len(squeue') \notin DOMAIN squeue \cup removed
            /\ \A x \in DOMAIN queues : queues[x] # Len(squeue')]_vars

\* the last remove_queue returned the queue of its source, which the
\* scheduler has deleted, and a new_queue of the same source has since mapped
\* the source to another queue
C22_Witness ==
    /\ rmlog.n >= 1
    /\ rmlog.ret # NoQueue
    /\ rmlog.ret \in removed
    /\ rmlog.src \in DOMAIN queues
    /\ queues[rmlog.src] # rmlog.ret

\* ---- C23 ----

\* the requests whose handler has been entered and has not returned
InHandler == {r \in RqFrames : r.pc \in {"in_handler", "write_wait"}}

\* C23: every request holds a read guard of the registry from its start to
\* its return, the handler's run included; while a handler that async_request
\* entered has not returned, no step changes the registry's gray value or its
\* map, so no set_channels_gray, register_async_request or
\* unregister_async_request takes effect; and a handler that calls one of
\* the three from inside its run waits in it for ever: it has not written,
\* its request stays as it is and never returns.
C23_HandlerHoldsReadLock ==
    /\ [](/\ readers = BagCardinality(rq)
          /\ \A r \in RqFrames : r.pc = "write_wait" =>
               r.write \in HandlerWrites /\ ~WriteLock(readers))
    /\ [][InHandler # {} => UNCHANGED <<gray, map, regs>>]_vars
    /\ [][\A r \in RqFrames : r.pc = "write_wait" =>
            /\ CopiesIn(r, rq') >= CopiesIn(r, rq)
            /\ readers' >= 1]_vars

\* a handler waits in a registry writer it called, under a registry that
\* holds a handler and a gray value set before the request
C23_Witness ==
    /\ \E r \in RqFrames : r.pc = "write_wait" /\ r.write = "unregister"
    /\ gray > 0
    /\ map # <<>>

====
